---- MODULE Spec2Model ----
(***************************************************************************)
(* Timestamp-keyed binary search tree of temperature/humidity readings     *)
(* (temp_humid_bst.c / temp_humid_bst.h).  One Tree_t object and the heap  *)
(* of Node_t objects that insert() allocates for it.  Every API call is    *)
(* one atomic action: the program is single threaded and each call runs to *)
(* completion.                                                             *)
(***************************************************************************)
EXTENDS Integers, Sequences, FiniteSets, TLC

\* ---------------------------------------------------------------- bounds
MaxNodes == 3          \* at most this many successful malloc(sizeof(Node_t))
MaxTime == 2           \* the valid time_t inputs are 0..MaxTime
MaxDays == 2           \* hw5_app: the user asks for at most this many readings
MaxSearches == 2       \* hw5_app: the user enters at most this many search dates

NULL == 0              \* the null pointer; node addresses are 1, 2, ...

\* (time_t) -1, the invalid timestamp of the error-condition test
InvalidTime == 0 - 1

\* the time_t values callers pass
Times == {InvalidTime} \cup 0..MaxTime

\* the temp/humid pairs callers pass: the zeroed test_data and readings[0]
\* (0x007AF2E, 0x00D8E24) of the test program
SampleMagnitudes == {<<0, 0>>, <<503598, 888356>>}

\* Data_t
Data_t(timestamp, temp, humid) ==
    [timestamp |-> timestamp, temp |-> temp, humid |-> humid]

\* the readings callers pass to insert()
Readings == {Data_t(t, m[1], m[2]) : t \in Times, m \in SampleMagnitudes}

\* the value of a Data_t argument of a call that takes none
NoData == Data_t(0, 0, 0)

\* the handles a caller can pass as Tree_t*: NULL or the one tree
TreePtr == 1
Handles == {NULL, TreePtr}

VARIABLES
    tree_state,   \* "Uninitialized", "Allocated" (between create and teardown), "Released"
    root,         \* tree->root: NULL or a node address
    node_count,   \* tree->node_count
    heap,         \* heap[a] is the Node_t at address a, in allocation order
    call,         \* the last API call: its name and its arguments
    ret,          \* the pointer the last call returned (NULL for void calls)
    visited,      \* the nodes the last call walked over, in order
    freed         \* the objects passed to free(), in order

vars == <<tree_state, root, node_count, heap, call, ret, visited, freed>>

\* --------------------------------------------------------------- programs
\* The two programs that use the tree, hw5_app and test_bst.  They own up to
\* two trees at a time, so their trees are kept as a list of what the
\* allocator holds for each.
VARIABLES
    program,      \* "none", "hw5_app" or "test_bst"
    pc,           \* the statement the program is at; "returned" after main returns
    loop_i,       \* the counter i of the loop the program is in
    num_days,     \* hw5_app: the number of readings the user asked for
    owned,        \* one entry per tree create_tree returned: the nodes allocated
                  \* for it and not freed, and the delete_tree calls made on it
    test_tree,    \* test_error_conditions' test_tree: NULL or a place in owned
    main_tree     \* main's tree: NULL or a place in owned

pvars == <<program, pc, loop_i, num_days, owned, test_tree, main_tree>>

\* the API is used on its own: no program runs
NoProgram ==
    /\ program = "none"
    /\ pc = "none"
    /\ loop_i = 0
    /\ num_days = 0
    /\ owned = <<>>
    /\ test_tree = NULL
    /\ main_tree = NULL

\* a node that stores temp and humid in each other's field
Node_t_SwappedFields(info, l, r) ==
    [data |-> [info EXCEPT !.temp = info.humid, !.humid = info.temp],
     left |-> l, right |-> r]

\* Node_t
Node_t(info, l, r) == [data |-> info, left |-> l, right |-> r]

\* a call: its name, its arguments, and whether the malloc() it made failed
Call(name, tree, info, timestamp, failed) ==
    [name |-> name, tree |-> tree, info |-> info, timestamp |-> timestamp,
     malloc_failed |-> failed]

\* an entry of the free() log
FreedNode(a) == [kind |-> "node", addr |-> a]
FreedTree == [kind |-> "tree", addr |-> TreePtr]

\* ------------------------------------------------------------ create_tree
\* a create_tree that starts the count at one
create_tree_CountsFromOne(ok) ==
    /\ tree_state = "Uninitialized"
    /\ UNCHANGED pvars
    /\ IF ok
         THEN /\ tree_state' = "Allocated"
              /\ root' = NULL
              /\ node_count' = 1
              /\ ret' = TreePtr
         ELSE /\ UNCHANGED <<tree_state, root, node_count>>
              /\ ret' = NULL
    /\ call' = Call("create_tree", NULL, NoData, 0, ~ok)
    /\ visited' = <<>>
    /\ UNCHANGED <<heap, freed>>

\* malloc(sizeof(Tree_t)) either succeeds or returns NULL
create_tree(ok) ==
    /\ tree_state = "Uninitialized"
    /\ UNCHANGED pvars
    /\ IF ok
         THEN /\ tree_state' = "Allocated"
              /\ root' = NULL
              /\ node_count' = 0
              /\ ret' = TreePtr
         ELSE /\ UNCHANGED <<tree_state, root, node_count>>
              /\ ret' = NULL
    /\ call' = Call("create_tree", NULL, NoData, 0, ~ok)
    /\ visited' = <<>>
    /\ UNCHANGED <<heap, freed>>

\* ----------------------------------------------------------------- insert
\* a descent that goes left on the larger timestamps
RECURSIVE InsertWalk_Mirrored(_, _, _)
InsertWalk_Mirrored(h, current, timestamp) ==
    IF current = NULL
      THEN <<>>
      ELSE <<current>> \o
           InsertWalk_Mirrored(h,
                               IF timestamp > h[current].data.timestamp
                                 THEN h[current].left
                                 ELSE h[current].right,
                               timestamp)

\* a descent that goes left on equal timestamps
RECURSIVE InsertWalk_TiesLeft(_, _, _)
InsertWalk_TiesLeft(h, current, timestamp) ==
    IF current = NULL
      THEN <<>>
      ELSE <<current>> \o
           InsertWalk_TiesLeft(h,
                               IF timestamp <= h[current].data.timestamp
                                 THEN h[current].left
                                 ELSE h[current].right,
                               timestamp)

\* the nodes `current` points to in the while loop of insert(), in order;
\* the last of them is `parent` when the loop ends
RECURSIVE InsertWalk(_, _, _)
InsertWalk(h, current, timestamp) ==
    IF current = NULL
      THEN <<>>
      ELSE <<current>> \o
           InsertWalk(h,
                      IF timestamp < h[current].data.timestamp
                        THEN h[current].left
                        ELSE h[current].right,
                      timestamp)

\* a link step that sends equal timestamps to the left
AttachNode_TiesLeft(h, parent, new_node, timestamp) ==
    IF timestamp <= h[parent].data.timestamp
      THEN [h EXCEPT ![parent].left = new_node]
      ELSE [h EXCEPT ![parent].right = new_node]

\* a link step that leaves out a reading whose timestamp the parent holds
AttachNode_SkipsDuplicate(h, parent, new_node, timestamp) ==
    IF timestamp < h[parent].data.timestamp
      THEN [h EXCEPT ![parent].left = new_node]
      ELSE IF timestamp = h[parent].data.timestamp
             THEN h
             ELSE [h EXCEPT ![parent].right = new_node]

\* a link step that also fills the parent's other slot when it is empty
AttachNode_Shares(h, parent, new_node, timestamp) ==
    IF timestamp < h[parent].data.timestamp
      THEN [h EXCEPT ![parent].left = new_node,
                     ![parent].right = IF @ = NULL THEN new_node ELSE @]
      ELSE [h EXCEPT ![parent].right = new_node,
                     ![parent].left = IF @ = NULL THEN new_node ELSE @]

\* the heap after new_node is linked below parent
AttachNode(h, parent, new_node, timestamp) ==
    IF timestamp < h[parent].data.timestamp
      THEN [h EXCEPT ![parent].left = new_node]
      ELSE [h EXCEPT ![parent].right = new_node]

\* a count that is not raised
IncrementCount_Forgotten(n) == n

\* tree->node_count++
IncrementCount(n) == n + 1

\* an insert that allocates the node before it checks the tree handle
insert_AllocatesFirst(tree, info, ok) ==
    /\ tree = NULL \/ tree_state = "Allocated"
    /\ UNCHANGED pvars
    /\ ok => Len(heap) < MaxNodes
    /\ call' = Call("insert", tree, info, info.timestamp, ~ok)
    /\ UNCHANGED <<tree_state, freed>>
    /\ IF ~ok
         THEN /\ ret' = NULL
              /\ visited' = <<>>
              /\ UNCHANGED <<root, node_count, heap>>
         ELSE LET new_node == Len(heap) + 1
                  h1 == Append(heap, Node_t(info, NULL, NULL))
              IN  IF tree = NULL
                    THEN /\ heap' = h1
                         /\ ret' = NULL
                         /\ visited' = <<>>
                         /\ UNCHANGED <<root, node_count>>
                    ELSE IF root = NULL
                    THEN /\ root' = new_node
                         /\ node_count' = IncrementCount(node_count)
                         /\ heap' = h1
                         /\ visited' = <<>>
                         /\ ret' = new_node
                    ELSE LET walk == InsertWalk(h1, root, info.timestamp)
                             parent == walk[Len(walk)]
                         IN  /\ heap' = AttachNode(h1, parent, new_node, info.timestamp)
                             /\ node_count' = IncrementCount(node_count)
                             /\ visited' = walk
                             /\ ret' = new_node
                             /\ UNCHANGED root

\* an insert that raises the count before it looks at what malloc() returned
insert_CountsFirst(tree, info, ok) ==
    /\ tree = NULL \/ tree_state = "Allocated"
    /\ UNCHANGED pvars
    /\ tree = NULL => ok
    /\ tree # NULL /\ ok => Len(heap) < MaxNodes
    /\ call' = Call("insert", tree, info, info.timestamp, tree # NULL /\ ~ok)
    /\ UNCHANGED <<tree_state, freed>>
    /\ IF tree = NULL
         THEN /\ ret' = NULL
              /\ visited' = <<>>
              /\ UNCHANGED <<root, node_count, heap>>
         ELSE IF ~ok
         THEN /\ ret' = NULL
              /\ visited' = <<>>
              /\ node_count' = IncrementCount(node_count)
              /\ UNCHANGED <<root, heap>>
         ELSE LET new_node == Len(heap) + 1
                  h1 == Append(heap, Node_t(info, NULL, NULL))
              IN  IF root = NULL
                    THEN /\ root' = new_node
                         /\ node_count' = IncrementCount(node_count)
                         /\ heap' = h1
                         /\ visited' = <<>>
                         /\ ret' = new_node
                    ELSE LET walk == InsertWalk(h1, root, info.timestamp)
                             parent == walk[Len(walk)]
                         IN  /\ heap' = AttachNode(h1, parent, new_node, info.timestamp)
                             /\ node_count' = IncrementCount(node_count)
                             /\ visited' = walk
                             /\ ret' = new_node
                             /\ UNCHANGED root

\* malloc(sizeof(Node_t)) either succeeds or returns NULL; it is not reached
\* on a NULL handle, where it has no outcome to choose
\* an insert that turns a negative timestamp away as search() does
insert_RejectsNegative(tree, info, ok) ==
    /\ tree = NULL \/ tree_state = "Allocated"
    /\ UNCHANGED pvars
    /\ tree = NULL => ok
    /\ tree # NULL /\ ok => Len(heap) < MaxNodes
    /\ call' = Call("insert", tree, info, info.timestamp, tree # NULL /\ ~ok)
    /\ UNCHANGED <<tree_state, freed>>
    /\ IF tree = NULL \/ ~ok \/ info.timestamp < 0
         THEN /\ ret' = NULL
              /\ visited' = <<>>
              /\ UNCHANGED <<root, node_count, heap>>
         ELSE LET new_node == Len(heap) + 1
                  h1 == Append(heap, Node_t(info, NULL, NULL))
              IN  IF root = NULL
                    THEN /\ root' = new_node
                         /\ node_count' = IncrementCount(node_count)
                         /\ heap' = h1
                         /\ visited' = <<>>
                         /\ ret' = new_node
                    ELSE LET walk == InsertWalk(h1, root, info.timestamp)
                             parent == walk[Len(walk)]
                         IN  /\ heap' = AttachNode(h1, parent, new_node, info.timestamp)
                             /\ node_count' = IncrementCount(node_count)
                             /\ visited' = walk
                             /\ ret' = new_node
                             /\ UNCHANGED root

insert(tree, info, ok) ==
    /\ tree = NULL \/ tree_state = "Allocated"
    /\ UNCHANGED pvars
    /\ tree = NULL => ok
    /\ tree # NULL /\ ok => Len(heap) < MaxNodes
    /\ call' = Call("insert", tree, info, info.timestamp, tree # NULL /\ ~ok)
    /\ UNCHANGED <<tree_state, freed>>
    /\ IF tree = NULL \/ ~ok
         THEN /\ ret' = NULL
              /\ visited' = <<>>
              /\ UNCHANGED <<root, node_count, heap>>
         ELSE LET new_node == Len(heap) + 1
                  h1 == Append(heap, Node_t(info, NULL, NULL))
              IN  IF root = NULL
                    THEN /\ root' = new_node
                         /\ node_count' = IncrementCount(node_count)
                         /\ heap' = h1
                         /\ visited' = <<>>
                         /\ ret' = new_node
                    ELSE LET walk == InsertWalk(h1, root, info.timestamp)
                             parent == walk[Len(walk)]
                         IN  /\ heap' = AttachNode(h1, parent, new_node, info.timestamp)
                             /\ node_count' = IncrementCount(node_count)
                             /\ visited' = walk
                             /\ ret' = new_node
                             /\ UNCHANGED root

\* ----------------------------------------------------------------- search
\* a search loop that turns the wrong way
RECURSIVE SearchWalk_WrongTurn(_, _, _)
SearchWalk_WrongTurn(h, current, timestamp) ==
    IF current # NULL /\ h[current].data.timestamp # timestamp
      THEN LET rest == SearchWalk_WrongTurn(h,
                                  IF timestamp > h[current].data.timestamp
                                    THEN h[current].left
                                    ELSE h[current].right,
                                  timestamp)
           IN  [path |-> <<current>> \o rest.path, current |-> rest.current]
      ELSE [path |-> IF current # NULL THEN <<current>> ELSE <<>>,
            current |-> current]

\* a search loop that stops on the last node of the descent
RECURSIVE SearchWalk_KeepsLast(_, _, _)
SearchWalk_KeepsLast(h, current, timestamp) ==
    IF current # NULL /\ h[current].data.timestamp # timestamp
      THEN LET next == IF timestamp < h[current].data.timestamp
                         THEN h[current].left
                         ELSE h[current].right
               rest == SearchWalk_KeepsLast(h, next, timestamp)
           IN  IF next = NULL
                 THEN [path |-> <<current>>, current |-> current]
                 ELSE [path |-> <<current>> \o rest.path, current |-> rest.current]
      ELSE [path |-> IF current # NULL THEN <<current>> ELSE <<>>,
            current |-> current]

\* a search loop that, on a match, goes on to a deeper match on the right
RECURSIVE SearchWalk_PastMatch(_, _, _)
SearchWalk_PastMatch(h, current, timestamp) ==
    IF current = NULL
      THEN [path |-> <<>>, current |-> NULL]
      ELSE LET rest == SearchWalk_PastMatch(h,
                                  IF timestamp < h[current].data.timestamp
                                    THEN h[current].left
                                    ELSE h[current].right,
                                  timestamp)
           IN  IF h[current].data.timestamp = timestamp /\ rest.current = NULL
                 THEN [path |-> <<current>>, current |-> current]
                 ELSE [path |-> <<current>> \o rest.path, current |-> rest.current]

\* the while loop of search(): the nodes printed on the way and the final
\* value of `current`
RECURSIVE SearchWalk(_, _, _)
SearchWalk(h, current, timestamp) ==
    IF current # NULL /\ h[current].data.timestamp # timestamp
      THEN LET rest == SearchWalk(h,
                                  IF timestamp < h[current].data.timestamp
                                    THEN h[current].left
                                    ELSE h[current].right,
                                  timestamp)
           IN  [path |-> <<current>> \o rest.path, current |-> rest.current]
      ELSE [path |-> IF current # NULL THEN <<current>> ELSE <<>>,
            current |-> current]

\* a search that does not validate the timestamp
SearchResult_Unvalidated(h, r, timestamp) == SearchWalk(h, r, timestamp)

\* what search(tree, timestamp) returns and walks over, tree being non-NULL
SearchResult(h, r, timestamp) ==
    IF timestamp < 0
      THEN [path |-> <<>>, current |-> NULL]
      ELSE SearchWalk(h, r, timestamp)

search(tree, timestamp) ==
    /\ tree = NULL \/ tree_state = "Allocated"
    /\ UNCHANGED pvars
    /\ call' = Call("search", tree, NoData, timestamp, FALSE)
    /\ IF tree = NULL
         THEN /\ ret' = NULL
              /\ visited' = <<>>
         ELSE LET res == SearchResult(heap, root, timestamp)
              IN  /\ ret' = res.current
                  /\ visited' = res.path
    /\ UNCHANGED <<tree_state, root, node_count, heap, freed>>

\* --------------------------------------------------------------- in_order
\* a traversal that prints the node before its left subtree
RECURSIVE in_order_recursive_PreOrder(_, _)
in_order_recursive_PreOrder(h, node) ==
    IF node # NULL
      THEN <<node>> \o in_order_recursive_PreOrder(h, h[node].left) \o
           in_order_recursive_PreOrder(h, h[node].right)
      ELSE <<>>

\* a traversal that descends into the left subtree on both sides of the node
RECURSIVE in_order_recursive_LeftTwice(_, _)
in_order_recursive_LeftTwice(h, node) ==
    IF node # NULL
      THEN in_order_recursive_LeftTwice(h, h[node].left) \o <<node>> \o
           in_order_recursive_LeftTwice(h, h[node].left)
      ELSE <<>>

\* the nodes in_order_recursive(node) prints, in order
RECURSIVE in_order_recursive(_, _)
in_order_recursive(h, node) ==
    IF node # NULL
      THEN in_order_recursive(h, h[node].left) \o <<node>> \o
           in_order_recursive(h, h[node].right)
      ELSE <<>>

\* a traversal that counts the nodes down as it prints them
in_order_ConsumesCount(tree) ==
    /\ tree = NULL \/ tree_state = "Allocated"
    /\ UNCHANGED pvars
    /\ call' = Call("in_order", tree, NoData, 0, FALSE)
    /\ ret' = NULL
    /\ visited' = IF tree = NULL THEN <<>> ELSE in_order_recursive(heap, root)
    /\ node_count' = IF tree = NULL THEN node_count ELSE 0
    /\ UNCHANGED <<tree_state, root, heap, freed>>

in_order(tree) ==
    /\ tree = NULL \/ tree_state = "Allocated"
    /\ UNCHANGED pvars
    /\ call' = Call("in_order", tree, NoData, 0, FALSE)
    /\ ret' = NULL
    /\ visited' = IF tree = NULL THEN <<>> ELSE in_order_recursive(heap, root)
    /\ UNCHANGED <<tree_state, root, node_count, heap, freed>>

\* ------------------------------------------------------------ delete_tree
\* a release that frees a node before its children
RECURSIVE delete_tree_recursive_PreOrder(_, _)
delete_tree_recursive_PreOrder(h, node) ==
    IF node # NULL
      THEN <<node>> \o delete_tree_recursive_PreOrder(h, h[node].left) \o
           delete_tree_recursive_PreOrder(h, h[node].right)
      ELSE <<>>

\* the nodes delete_tree_recursive(node) passes to free(), in order
RECURSIVE delete_tree_recursive(_, _)
delete_tree_recursive(h, node) ==
    IF node # NULL
      THEN delete_tree_recursive(h, h[node].left) \o
           delete_tree_recursive(h, h[node].right) \o <<node>>
      ELSE <<>>

\* a teardown that frees the nodes and forgets the Tree object
delete_tree_KeepsTree(tree) ==
    /\ tree = NULL \/ tree_state = "Allocated"
    /\ UNCHANGED pvars
    /\ call' = Call("delete_tree", tree, NoData, 0, FALSE)
    /\ ret' = NULL
    /\ IF tree = NULL
         THEN /\ visited' = <<>>
              /\ UNCHANGED freed
         ELSE LET released == delete_tree_recursive(heap, root)
              IN  /\ visited' = released
                  /\ freed' = freed \o [i \in 1..Len(released) |-> FreedNode(released[i])]
    /\ UNCHANGED <<tree_state, root, node_count, heap>>

delete_tree(tree) ==
    /\ tree = NULL \/ tree_state = "Allocated"
    /\ UNCHANGED pvars
    /\ call' = Call("delete_tree", tree, NoData, 0, FALSE)
    /\ ret' = NULL
    /\ IF tree = NULL
         THEN /\ visited' = <<>>
              /\ UNCHANGED <<tree_state, freed>>
         ELSE LET released == delete_tree_recursive(heap, root)
              IN  /\ visited' = released
                  /\ freed' = freed \o [i \in 1..Len(released) |-> FreedNode(released[i])]
                                    \o <<FreedTree>>
                  /\ tree_state' = "Released"
    /\ UNCHANGED <<root, node_count, heap>>

\* ------------------------------------------------------------------ system
Init ==
    /\ tree_state = "Uninitialized"
    /\ root = NULL
    /\ node_count = 0
    /\ heap = <<>>
    /\ call = Call("none", NULL, NoData, 0, FALSE)
    /\ ret = NULL
    /\ visited = <<>>
    /\ freed = <<>>
    /\ NoProgram

Next ==
    \/ \E ok \in BOOLEAN : create_tree(ok)
    \/ \E tree \in Handles, info \in Readings, ok \in BOOLEAN : insert(tree, info, ok)
    \/ \E tree \in Handles, timestamp \in Times : search(tree, timestamp)
    \/ \E tree \in Handles : in_order(tree)
    \/ \E tree \in Handles : delete_tree(tree)

Spec == Init /\ [][Next]_vars

\* ----------------------------------------------------------- observations
\* the tree exists: create_tree has returned it and delete_tree has not run
Live == tree_state = "Allocated"

\* the last call was `name` on the tree itself (not on a NULL handle)
Called(name) == call.name = name /\ call.tree = TreePtr

\* the timestamps of a sequence of nodes
TimestampsOf(h, seq) == [i \in 1..Len(seq) |-> h[seq[i]].data.timestamp]

NonDecreasing(ts) == \A i \in 1..Len(ts) : \A j \in i..Len(ts) : ts[i] <= ts[j]

\* the nodes reachable from the nodes of S through left/right links
RECURSIVE LinkClosure(_, _)
LinkClosure(h, S) ==
    LET T == S \cup (({h[a].left : a \in S} \cup {h[a].right : a \in S}) \ {NULL})
    IN  IF T = S THEN S ELSE LinkClosure(h, T)

\* the nodes of the subtree that hangs from pointer n
Subtree(h, n) == IF n = NULL THEN {} ELSE LinkClosure(h, {n})

\* the traversal of the tree as it is now
InOrderNow == in_order_recursive(heap, root)

\* C1: after any sequence of inserts, the in-order traversal (left subtree,
\* node, right subtree) visits the readings in non-decreasing timestamp
\* order: both the traversal of the current tree and what in_order() walked.
C1_InOrderSorted ==
    /\ Live => NonDecreasing(TimestampsOf(heap, InOrderNow))
    /\ Called("in_order") => NonDecreasing(TimestampsOf(heap, visited))

\* an in_order() call walked a tree of three or more nodes that holds both
\* equal and different timestamps and was not inserted in ascending order
C1_Witness ==
    /\ Called("in_order")
    /\ Len(visited) >= 3
    /\ \E i, j \in 1..Len(visited) :
           /\ i < j /\ visited[i] > visited[j]
           /\ heap[visited[i]].data.timestamp < heap[visited[j]].data.timestamp
    /\ \E i, j \in 1..Len(visited) :
           i # j /\ heap[visited[i]].data.timestamp = heap[visited[j]].data.timestamp

\* C2: for every node N of the tree, every timestamp in N's left subtree is
\* strictly less than N's and every timestamp in N's right subtree is
\* greater than or equal to N's.
C2_OrderingInvariant ==
    Live =>
      \A n \in Subtree(heap, root) :
          /\ \A l \in Subtree(heap, heap[n].left) :
                 heap[l].data.timestamp < heap[n].data.timestamp
          /\ \A r \in Subtree(heap, heap[n].right) :
                 heap[r].data.timestamp >= heap[n].data.timestamp

\* a tree in which a node has a subtree on each side and an equal
\* timestamp sits in its right subtree
C2_Witness ==
    /\ Live
    /\ \E n \in Subtree(heap, root) :
           /\ Cardinality(Subtree(heap, heap[n].left)) >= 1
           /\ Cardinality(Subtree(heap, heap[n].right)) >= 1
           /\ \E r \in Subtree(heap, heap[n].right) :
                  heap[r].data.timestamp = heap[n].data.timestamp

\* C3: between create and teardown node_count is the number of nodes
\* reachable from root, which is the number of successful inserts (one node
\* is allocated per successful insert) and the length of the traversal; each
\* successful insert raises it by exactly one and no step lowers it.
C3_CountState ==
    Live => /\ node_count = Cardinality(Subtree(heap, root))
            /\ node_count = Len(heap)
            /\ Len(InOrderNow) = Len(heap)
            /\ Called("in_order") => Len(visited) = node_count

C3_CountStep ==
    Live /\ Live' =>
      /\ node_count' >= node_count
      /\ (call'.name = "insert" /\ ret' # NULL) => node_count' = node_count + 1
      /\ node_count' # node_count => call'.name = "insert" /\ ret' # NULL

C3_NodeCount == []C3_CountState /\ [][C3_CountStep]_vars

\* in_order() walked a tree built by more than two successful inserts
C3_Witness ==
    /\ Called("in_order")
    /\ Len(heap) >= 3
    /\ node_count = Len(heap)
    /\ Len(visited) = Len(heap)

\* the nodes that hold timestamp t
Holding(h, t) == {a \in 1..Len(h) : h[a].data.timestamp = t}

\* the nodes on the way from pointer n down to node target, both included,
\* found by following the links; <<>> when target is not below n
RECURSIVE PathTo(_, _, _)
PathTo(h, n, target) ==
    IF n = NULL THEN <<>>
    ELSE IF n = target THEN <<n>>
    ELSE LET l == PathTo(h, h[n].left, target)
             r == PathTo(h, h[n].right, target)
         IN  IF l # <<>> THEN <<n>> \o l
             ELSE IF r # <<>> THEN <<n>> \o r
             ELSE <<>>

\* the number of nodes from the root down to node a (0: a is not in the tree)
Depth(h, r, a) == Len(PathTo(h, r, a))

\* C4 as stated: for every inserted timestamp T, whatever its value, a later
\* search(tree, T) returns a node whose timestamp is T.
C4_SearchFindsEveryInserted ==
    (Called("search") /\ Holding(heap, call.timestamp) # {}) =>
        /\ ret # NULL
        /\ heap[ret].data.timestamp = call.timestamp

\* C4 amended: for every inserted timestamp T >= 0, a later search(tree, T)
\* returns a node whose timestamp is T; for an inserted T < 0 it returns NULL.
C4_SearchFindsInserted ==
    (Called("search") /\ Holding(heap, call.timestamp) # {}) =>
        IF call.timestamp >= 0
          THEN /\ ret # NULL
               /\ ret \in Subtree(heap, root)
               /\ heap[ret].data.timestamp = call.timestamp
          ELSE ret = NULL

\* search() found an inserted timestamp two links below the root
C4_Witness ==
    /\ Called("search")
    /\ call.timestamp >= 0
    /\ ret # NULL
    /\ heap[ret].data.timestamp = call.timestamp
    /\ Len(visited) >= 3

\* C5: for every timestamp that was never inserted, search returns NULL,
\* after any sequence of inserts of other timestamps.
C5_SearchMissesAbsent ==
    (Called("search") /\ Holding(heap, call.timestamp) = {}) => ret = NULL

\* search() walked down a populated tree for a valid timestamp that is not
\* in it, and returned NULL
C5_Witness ==
    /\ Called("search")
    /\ call.timestamp >= 0
    /\ Holding(heap, call.timestamp) = {}
    /\ Len(visited) >= 2
    /\ ret = NULL

\* C6: search with a negative timestamp returns NULL in every tree state
\* and visits no node.
C6_NegativeShortCircuit ==
    (Called("search") /\ call.timestamp < 0) => ret = NULL /\ visited = <<>>

\* search(tree, -1) ran on a tree that holds timestamp 0 and timestamp -1
C6_Witness ==
    /\ Called("search")
    /\ call.timestamp < 0
    /\ root # NULL
    /\ Holding(heap, 0) # {}
    /\ Holding(heap, call.timestamp) # {}
    /\ ret = NULL

\* a successful insert into the tree has just run
InsertSucceeded == Called("insert") /\ ret # NULL

\* the elements of a sequence
Range(seq) == {seq[i] : i \in 1..Len(seq)}

\* readings with one timestamp are next to each other in the traversal
DuplicatesAdjacent(h, seq) ==
    \A i \in 1..Len(seq) : \A j \in i..Len(seq) :
        h[seq[i]].data.timestamp = h[seq[j]].data.timestamp =>
            \A k \in i..j : h[seq[k]].data.timestamp = h[seq[i]].data.timestamp

\* node a is the node nearest the root among the nodes that hold timestamp t
NearestRoot(h, r, a, t) ==
    /\ a \in Holding(h, t)
    /\ Depth(h, r, a) > 0
    /\ \A b \in Holding(h, t) \ {a} : Depth(h, r, a) < Depth(h, r, b)

\* an insert of a timestamp the tree already holds, whose malloc() succeeds,
\* returns a new node and raises the count
C7_DuplicateInsertStep ==
    (/\ call'.name = "insert" /\ call'.tree = TreePtr /\ ~call'.malloc_failed
     /\ Holding(heap, call'.timestamp) # {}) =>
        /\ ret' # NULL
        /\ ret' \notin 1..Len(heap)
        /\ heap'[ret'].data = call'.info
        /\ node_count' = node_count + 1

\* every inserted reading is in the traversal, equal timestamps side by side
C7_DuplicatesInTraversal ==
    Live => /\ Range(InOrderNow) = 1..Len(heap)
            /\ DuplicatesAdjacent(heap, InOrderNow)
            /\ Called("in_order") => visited = InOrderNow

\* C7 as stated: inserting a timestamp T twice succeeds both times, both
\* readings are adjacent in the traversal, and search(T) returns the one of
\* them nearest the root, for every T.
C7_DuplicatesAsStated ==
    /\ [][C7_DuplicateInsertStep]_vars
    /\ []C7_DuplicatesInTraversal
    /\ []((Called("search") /\ Cardinality(Holding(heap, call.timestamp)) >= 2)
            => NearestRoot(heap, root, ret, call.timestamp))

\* C7 amended: as stated, but search(T) returns the reading nearest the root
\* only for T >= 0; for T < 0 it returns NULL.
C7_Duplicates ==
    /\ [][C7_DuplicateInsertStep]_vars
    /\ []C7_DuplicatesInTraversal
    /\ []((Called("search") /\ Cardinality(Holding(heap, call.timestamp)) >= 2)
            => IF call.timestamp >= 0
                 THEN NearestRoot(heap, root, ret, call.timestamp)
                 ELSE ret = NULL)

\* search(T) ran on a tree that holds T twice and another timestamp, and
\* returned the reading of T that was inserted first
C7_Witness ==
    /\ Called("search")
    /\ call.timestamp >= 0
    /\ Cardinality(Holding(heap, call.timestamp)) >= 2
    /\ Holding(heap, call.timestamp) # 1..Len(heap)
    /\ ret # NULL
    /\ ret # root
    /\ \A b \in Holding(heap, call.timestamp) : ret <= b

\* the pointer slots of the structure: the root slot and the two child slots
\* of every node
Slots(h) == {<<NULL, "root">>} \cup ((1..Len(h)) \X {"left", "right"})

SlotValue(h, r, s) ==
    IF s[2] = "root" THEN r
    ELSE IF s[2] = "left" THEN h[s[1]].left
    ELSE h[s[1]].right

\* C8: a successful insert fills exactly one slot that was absent before (the
\* root slot or a child slot of an existing node) with the new node; every
\* node that existed keeps its reading, its position and its child links
\* that were present; the root, once set, is never replaced.
C8_InsertFrameStep ==
    /\ InsertSucceeded' =>
         LET changed == {s \in Slots(heap) :
                           SlotValue(heap', root', s) # SlotValue(heap, root, s)}
         IN  /\ Len(heap') = Len(heap) + 1
             /\ Cardinality(changed) = 1
             /\ \A s \in changed : /\ SlotValue(heap, root, s) = NULL
                                   /\ SlotValue(heap', root', s) = Len(heap) + 1
             /\ \A a \in 1..Len(heap) :
                    /\ heap'[a].data = heap[a].data
                    /\ heap[a].left # NULL => heap'[a].left = heap[a].left
                    /\ heap[a].right # NULL => heap'[a].right = heap[a].right
                    /\ PathTo(heap', root', a) = PathTo(heap, root, a)
    /\ (Live /\ Live' /\ root # NULL) => root' = root

C8_InsertFrame == [][C8_InsertFrameStep]_vars

\* a third reading was inserted below a child of the root
C8_Witness ==
    /\ InsertSucceeded
    /\ ret = 3
    /\ Depth(heap, root, ret) = 3

\* C9: a successful insert returns the newly created node, which holds the
\* given reading and has no children; in an empty tree it becomes the root,
\* otherwise it fills a child slot that was absent, and every link on the
\* way from the root to it goes left exactly when the reading's timestamp is
\* less than the timestamp of the node the link leaves.
C9_InsertResultStep ==
    InsertSucceeded' =>
      LET path == PathTo(heap', root', ret')
      IN  /\ ret' = Len(heap) + 1
          /\ Len(heap') = Len(heap) + 1
          /\ heap'[ret'] = [data |-> call'.info, left |-> NULL, right |-> NULL]
          /\ root = NULL => root' = ret'
          /\ root # NULL => root' = root
          /\ Len(path) >= 1
          /\ path[1] = root'
          /\ \A i \in 1..(Len(path) - 1) :
                 /\ path[i] \in 1..Len(heap)
                 /\ IF call'.info.timestamp < heap[path[i]].data.timestamp
                      THEN heap'[path[i]].left = path[i + 1]
                      ELSE heap'[path[i]].right = path[i + 1]
                 /\ path[i + 1] = ret' =>
                      IF call'.info.timestamp < heap[path[i]].data.timestamp
                        THEN heap[path[i]].left = NULL
                        ELSE heap[path[i]].right = NULL
          /\ visited' = SubSeq(path, 1, Len(path) - 1)

C9_InsertResult == [][C9_InsertResultStep]_vars

\* a reading with different temp and humid was attached as the left child
\* of a right child of the root
C9_Witness ==
    /\ InsertSucceeded
    /\ call.info.temp # call.info.humid
    /\ Len(visited) = 2
    /\ heap[root].right = visited[2]
    /\ heap[visited[2]].left = ret

\* the calls that take a Tree_t*
TreeCalls == {"insert", "search", "in_order", "delete_tree"}

\* C10: a call on a NULL tree handle returns the failure indicator (NULL),
\* walks over no node, creates and releases nothing, and leaves the tree, its
\* nodes and its count as they were.
C10_NullHandleStep ==
    (call'.name \in TreeCalls /\ call'.tree = NULL) =>
        /\ ret' = NULL
        /\ visited' = <<>>
        /\ UNCHANGED <<tree_state, root, node_count, heap, freed>>

C10_NullHandle ==
    /\ [][C10_NullHandleStep]_vars
    /\ []((call.name \in TreeCalls /\ call.tree = NULL) =>
              ret = NULL /\ visited = <<>>)

\* insert(NULL, r) ran while a populated tree existed
C10_Witness ==
    /\ call.name = "insert"
    /\ call.tree = NULL
    /\ Live
    /\ root # NULL
    /\ ret = NULL

\* what search(t) returns, told from the tree alone: NULL for a negative or
\* absent t, else the holder of t nearest the root
SearchAnswer(h, r, t, a) ==
    IF t < 0 \/ Holding(h, t) = {}
      THEN a = NULL
      ELSE NearestRoot(h, r, a, t)

\* C11: when node allocation fails, insert returns NULL and leaves root,
\* links and node_count as they were; when tree allocation fails, create_tree
\* returns NULL and there is no tree; the calls that follow a failed insert
\* behave as on the tree before it.
C11_AllocationFailureStep ==
    /\ (call'.name = "insert" /\ call'.malloc_failed) =>
           /\ ret' = NULL
           /\ UNCHANGED <<tree_state, root, node_count, heap, freed>>
    /\ (call'.name = "create_tree" /\ call'.malloc_failed) =>
           /\ ret' = NULL
           /\ tree_state' = "Uninitialized"
           /\ UNCHANGED <<root, node_count, heap, freed>>
    /\ (call.name = "insert" /\ call.malloc_failed) =>
           /\ InsertSucceeded' =>
                  /\ ret' = Len(heap) + 1
                  /\ node_count' = node_count + 1
                  /\ Len(heap') = Len(heap) + 1
           /\ Called("search")' =>
                  SearchAnswer(heap, root, call'.timestamp, ret')

C11_AllocationFailure ==
    /\ [][C11_AllocationFailureStep]_vars
    /\ []((call.name = "insert" /\ call.malloc_failed) =>
              /\ ret = NULL
              /\ node_count = Len(heap)
              /\ node_count = Cardinality(Subtree(heap, root)))
    /\ []((call.name = "create_tree" /\ call.malloc_failed) =>
              ret = NULL /\ tree_state = "Uninitialized")

\* an insert into a populated tree failed for want of memory
C11_Witness ==
    /\ call.name = "insert"
    /\ call.malloc_failed
    /\ ret = NULL
    /\ Len(heap) >= 2
    /\ node_count = Len(heap)

\* the place of an object in the free() log (0: it was never freed)
FreedAt(x) ==
    IF \E i \in 1..Len(freed) : freed[i] = x
      THEN CHOOSE i \in 1..Len(freed) : freed[i] = x
      ELSE 0

\* the number of times an object was passed to free()
TimesFreed(x) == Cardinality({i \in 1..Len(freed) : freed[i] = x})

\* C12: delete_tree releases every node exactly once, both children of a
\* node before the node, and the Tree object last; nothing is released
\* before delete_tree runs.
C12_Teardown ==
    /\ tree_state # "Released" => freed = <<>>
    /\ tree_state = "Released" =>
         /\ \A a \in 1..Len(heap) :
                /\ TimesFreed(FreedNode(a)) = 1
                /\ heap[a].left # NULL =>
                       FreedAt(FreedNode(heap[a].left)) < FreedAt(FreedNode(a))
                /\ heap[a].right # NULL =>
                       FreedAt(FreedNode(heap[a].right)) < FreedAt(FreedNode(a))
         /\ TimesFreed(FreedTree) = 1
         /\ Len(freed) = Len(heap) + 1
         /\ freed[Len(freed)] = FreedTree

\* delete_tree released a tree whose root has two children
C12_Witness ==
    /\ tree_state = "Released"
    /\ Called("delete_tree")
    /\ root # NULL
    /\ heap[root].left # NULL
    /\ heap[root].right # NULL
    /\ Len(freed) = 4

\* the tree is as create_tree returned it: no insert has succeeded on it
Fresh == Live /\ heap = <<>>

\* C13: a tree just returned by create_tree has root NULL and node_count 0;
\* on it search returns NULL for every timestamp and visits nothing, the
\* traversal visits no reading, and delete_tree releases the Tree object and
\* no node.
C13_FreshTreeState ==
    /\ (call.name = "create_tree" /\ ret # NULL) => Fresh
    /\ Fresh => /\ root = NULL
                /\ node_count = 0
                /\ Called("search") => ret = NULL /\ visited = <<>>
                /\ Called("in_order") => visited = <<>>
    /\ (tree_state = "Released" /\ heap = <<>>) => freed = <<FreedTree>>

C13_FreshTree ==
    /\ []C13_FreshTreeState
    /\ [][(Fresh /\ Called("delete_tree")') =>
              /\ visited' = <<>>
              /\ freed' = <<FreedTree>>
              /\ tree_state' = "Released"]_vars

\* delete_tree ran on a tree that never held a node
C13_Witness ==
    /\ Called("delete_tree")
    /\ heap = <<>>
    /\ tree_state = "Released"
    /\ freed = <<FreedTree>>

\* C14: search and in_order change nothing: root, every node's reading and
\* links, node_count, the tree's existence and the free() log are the same
\* after the call as before, and what in_order walks is the traversal of the
\* tree as it stands, so a second traversal yields the same sequence.
C14_ReadOnlyStep ==
    (call'.name \in {"search", "in_order"}) =>
        UNCHANGED <<tree_state, root, node_count, heap, freed>>

C14_ReadOnly ==
    /\ [][C14_ReadOnlyStep]_vars
    /\ [](Called("in_order") =>
              /\ visited = InOrderNow
              /\ node_count = Len(visited))
    /\ [](Called("search") => SearchAnswer(heap, root, call.timestamp, ret))

\* a search found a reading below the root of a three-node tree
C14_Witness ==
    /\ Called("search")
    /\ ret # NULL
    /\ ret # root
    /\ Len(heap) = 3
    /\ node_count = 3

\* the lifecycle state of the tree
LifeState ==
    IF tree_state # "Allocated" THEN tree_state
    ELSE IF root = NULL /\ node_count = 0 THEN "Empty"
    ELSE "Populated"

\* C15: the tree goes Uninitialized -> Empty -> Populated -> Released: it is
\* Empty exactly when root is NULL and node_count is 0 (and then it holds no
\* node); the first successful insert makes it Populated, nothing makes a
\* Populated tree Empty again, only delete_tree makes it Released, and
\* nothing leaves Released.
C15_LifecycleStep ==
    /\ LifeState = "Uninitialized" =>
           /\ LifeState' \in {"Uninitialized", "Empty"}
           /\ LifeState' = "Empty" <=> (call'.name = "create_tree" /\ ret' # NULL)
    /\ LifeState = "Empty" =>
           /\ LifeState' \in {"Empty", "Populated", "Released"}
           /\ LifeState' = "Populated" <=> InsertSucceeded'
    /\ LifeState = "Populated" => LifeState' \in {"Populated", "Released"}
    /\ LifeState = "Released" => LifeState' = "Released"
    /\ (LifeState # "Released" /\ LifeState' = "Released") => Called("delete_tree")'
    /\ Called("delete_tree")' => LifeState' = "Released"

C15_Lifecycle ==
    /\ [][C15_LifecycleStep]_vars
    /\ [](Live => /\ root = NULL <=> node_count = 0
                  /\ root = NULL <=> heap = <<>>)

\* a tree that held two nodes was released
C15_Witness ==
    /\ LifeState = "Released"
    /\ Len(heap) >= 2
    /\ node_count = Len(heap)

\* the readings of a sequence of nodes
ReadingsOf(h, seq) == [i \in 1..Len(seq) |-> h[seq[i]].data]

\* the readings the tree holds
Stored(h) == {h[a].data : a \in 1..Len(h)}

\* the timestamps of the stored readings are non-negative and differ
DistinctValidTimes(h) ==
    /\ \A a \in 1..Len(h) : h[a].data.timestamp >= 0
    /\ \A a, b \in 1..Len(h) : a # b => h[a].data.timestamp # h[b].data.timestamp

\* a set of readings with different timestamps, as a sequence in ascending
\* timestamp order
RECURSIVE Ascending(_)
Ascending(S) ==
    IF S = {} THEN <<>>
    ELSE LET first == CHOOSE d \in S : \A e \in S : d.timestamp <= e.timestamp
         IN  <<first>> \o Ascending(S \ {first})

\* C16: for readings with pairwise distinct (valid) timestamps, the traversal
\* and the search results depend on the set of readings only, not on the
\* order of insertion: the traversal is the set in ascending order, search
\* returns the reading of every inserted timestamp and NULL for every other.
C16_OrderIndependent ==
    (Live /\ DistinctValidTimes(heap)) =>
        /\ ReadingsOf(heap, InOrderNow) = Ascending(Stored(heap))
        /\ Called("in_order") => ReadingsOf(heap, visited) = Ascending(Stored(heap))
        /\ Called("search") =>
               IF \E d \in Stored(heap) : d.timestamp = call.timestamp
                 THEN /\ ret # NULL
                      /\ heap[ret].data \in Stored(heap)
                      /\ heap[ret].data.timestamp = call.timestamp
                 ELSE ret = NULL

\* in_order walked three readings of different timestamps that were inserted
\* neither in ascending nor in descending order
C16_Witness ==
    /\ Called("in_order")
    /\ Len(heap) = 3
    /\ DistinctValidTimes(heap)
    /\ heap[2].data.timestamp > heap[1].data.timestamp
    /\ heap[2].data.timestamp > heap[3].data.timestamp
    /\ Len(visited) = 3

\* C17: the links form a tree: no node is reachable from itself, the root is
\* held by the root slot only, every other node by exactly one child slot of
\* another node, and the two slots of a node never hold the same node.
C17_LinksFormTree ==
    Live =>
      \A a \in 1..Len(heap) :
          LET holders == {s \in Slots(heap) : SlotValue(heap, root, s) = a}
          IN  /\ a \notin Subtree(heap, heap[a].left)
              /\ a \notin Subtree(heap, heap[a].right)
              /\ Cardinality(holders) = 1
              /\ \A s \in holders : s[1] # a
              /\ \A s \in holders : s[2] = "root" <=> a = root
              /\ heap[a].left # NULL => heap[a].left # heap[a].right

\* a tree of three nodes whose root has two children
C17_Witness ==
    /\ Live
    /\ Len(heap) = 3
    /\ heap[root].left # NULL
    /\ heap[root].right # NULL

\* no node occurs twice in the sequence
NoRepeats(seq) == \A i, j \in 1..Len(seq) : seq[i] = seq[j] => i = j

\* C18: every call completes within the size of the tree: the descent of
\* insert passes at most the nodes that were there, the descent of search at
\* most node_count nodes, none twice; the depth of a node never exceeds the
\* number of successful insertions; traversal and teardown visit each node of
\* the tree once.
C18_BoundedWork ==
    /\ Live => \A a \in 1..Len(heap) :
                   Depth(heap, root, a) >= 1 /\ Depth(heap, root, a) <= Len(heap)
    /\ InsertSucceeded =>
           /\ Len(visited) <= node_count - 1
           /\ NoRepeats(visited)
    /\ Called("search") =>
           /\ Len(visited) <= node_count
           /\ NoRepeats(visited)
    /\ (Called("in_order") \/ Called("delete_tree")) =>
           /\ Len(visited) = node_count
           /\ NoRepeats(visited)
           /\ Range(visited) = Subtree(heap, root)

\* a search walked over every node of a three-node tree
C18_Witness ==
    /\ Called("search")
    /\ node_count = 3
    /\ Len(visited) = 3

\* the readings were inserted in non-decreasing / strictly decreasing
\* timestamp order (addresses are in insertion order)
InsertedAscending(h) ==
    \A a \in 1..(Len(h) - 1) : h[a].data.timestamp <= h[a + 1].data.timestamp

InsertedDescending(h) ==
    \A a \in 1..(Len(h) - 1) : h[a].data.timestamp > h[a + 1].data.timestamp

\* the largest stored timestamp
LargestTime(h) ==
    CHOOSE t \in {h[a].data.timestamp : a \in 1..Len(h)} :
        \A a \in 1..Len(h) : h[a].data.timestamp <= t

\* the depth of the deepest node
TreeDepth(h, r) ==
    IF Len(h) = 0 THEN 0
    ELSE CHOOSE d \in 1..Len(h) :
             /\ \E a \in 1..Len(h) : Depth(h, r, a) = d
             /\ \A a \in 1..Len(h) : Depth(h, r, a) <= d

\* the shape part of C19: ascending insertion gives a chain without left
\* children, descending insertion a chain without right children, of depth N
C19_Chains ==
    /\ (Live /\ InsertedAscending(heap)) =>
           /\ \A a \in 1..Len(heap) : heap[a].left = NULL
           /\ TreeDepth(heap, root) = Len(heap)
    /\ (Live /\ InsertedDescending(heap)) =>
           /\ \A a \in 1..Len(heap) : heap[a].right = NULL
           /\ TreeDepth(heap, root) = Len(heap)

\* C19 as stated: after N inserts in non-decreasing order the tree is a chain
\* to the right of depth N and a search for the largest timestamp visits all
\* N nodes; strictly decreasing order gives the mirror chain.
C19_ChainsAsStated ==
    /\ C19_Chains
    /\ (Called("search") /\ heap # <<>> /\ InsertedAscending(heap)
        /\ call.timestamp = LargestTime(heap)) => Len(visited) = Len(heap)

\* C19 amended: the chains are as stated; the search for the largest
\* timestamp visits all N nodes when that timestamp is non-negative and was
\* inserted once; when it was inserted several times the search stops at the
\* first of them, and when it is negative the search visits no node.
C19_SortedInsertChains ==
    /\ C19_Chains
    /\ (Called("search") /\ heap # <<>> /\ InsertedAscending(heap)
        /\ call.timestamp = LargestTime(heap)) =>
           IF call.timestamp < 0 THEN visited = <<>>
           ELSE /\ Len(visited) = Len(heap) + 1 - Cardinality(Holding(heap, call.timestamp))
                /\ Cardinality(Holding(heap, call.timestamp)) = 1 =>
                       Len(visited) = Len(heap)

\* a search for the largest of three timestamps inserted in ascending order
\* walked over all three nodes
C19_Witness ==
    /\ Called("search")
    /\ Len(heap) = 3
    /\ InsertedAscending(heap)
    /\ call.timestamp = LargestTime(heap)
    /\ Len(visited) = 3

\* ------------------------------------------------- the programs' statements
\* the number of readings build_test_tree inserts
NumReadings == 12

\* the number of timestamps search_test_cases looks up
NumSearchCases == 14

\* what create_tree, insert and delete_tree do to the allocations of a tree
OwnedCreate(o) == Append(o, [nodes |-> 0, deleted |-> 0])

OwnedInsert(o, t) == [o EXCEPT ![t].nodes = @ + 1]

OwnedDelete(o, t) == [o EXCEPT ![t].nodes = 0, ![t].deleted = @ + 1]

At(name, label) == program = name /\ pc = label

\* hw5_app main: tree = create_tree(); return 1 when it failed
App_create_tree ==
    /\ At("hw5_app", "create_tree")
    /\ \E ok \in BOOLEAN :
         IF ok
           THEN /\ owned' = OwnedCreate(owned)
                /\ main_tree' = Len(owned) + 1
                /\ pc' = "scanf"
           ELSE /\ pc' = "returned"
                /\ UNCHANGED <<owned, main_tree>>
    /\ UNCHANGED <<program, loop_i, num_days, test_tree, vars>>

\* hw5_app main: scanf of month, day and number of days; on a bad format
\* delete_tree(tree) and return 1
App_scanf ==
    /\ At("hw5_app", "scanf")
    /\ \E matched \in BOOLEAN, n \in 0..MaxDays :
         IF matched
           THEN /\ num_days' = n
                /\ pc' = "populateBST"
                /\ UNCHANGED owned
           ELSE /\ owned' = OwnedDelete(owned, main_tree)
                /\ pc' = "returned"
                /\ UNCHANGED num_days
    /\ UNCHANGED <<program, loop_i, test_tree, main_tree, vars>>

\* populateBST up to its insert loop: it returns at once on invalid
\* parameters, when iom361 does not initialize or when its arrays cannot be
\* allocated
App_populateBST ==
    /\ At("hw5_app", "populateBST")
    /\ \E ready \in BOOLEAN :
         IF num_days < 1 \/ ~ready
           THEN pc' = "prompt"
           ELSE pc' = "populate_insert"
    /\ loop_i' = 0
    /\ UNCHANGED <<program, num_days, owned, test_tree, main_tree, vars>>

\* populateBST: for (i = 0; i < num_days; i++) insert(tree, readings[i]),
\* the result of insert is not looked at
App_populate_insert ==
    /\ At("hw5_app", "populate_insert")
    /\ IF loop_i < num_days
         THEN /\ \E ok \in BOOLEAN :
                   owned' = IF ok THEN OwnedInsert(owned, main_tree) ELSE owned
              /\ loop_i' = loop_i + 1
              /\ UNCHANGED pc
         ELSE /\ pc' = "prompt"
              /\ loop_i' = 0
              /\ UNCHANGED owned
    /\ UNCHANGED <<program, num_days, test_tree, main_tree, vars>>

\* hw5_app main: the search loop; an empty line or end of input leaves it,
\* any other line is parsed and, when it is a date, searched for
App_prompt ==
    /\ At("hw5_app", "prompt")
    /\ \E more \in BOOLEAN :
         IF more /\ loop_i < MaxSearches
           THEN loop_i' = loop_i + 1 /\ UNCHANGED pc
           ELSE pc' = "in_order" /\ UNCHANGED loop_i
    /\ UNCHANGED <<program, num_days, owned, test_tree, main_tree, vars>>

\* hw5_app main: in_order(tree)
App_in_order ==
    /\ At("hw5_app", "in_order")
    /\ pc' = "delete_tree"
    /\ UNCHANGED <<program, loop_i, num_days, owned, test_tree, main_tree, vars>>

\* hw5_app main: delete_tree(tree); return 0
App_delete_tree ==
    /\ At("hw5_app", "delete_tree")
    /\ owned' = OwnedDelete(owned, main_tree)
    /\ pc' = "returned"
    /\ UNCHANGED <<program, loop_i, num_days, test_tree, main_tree, vars>>

\* test_bst main: iom361_initialize; return 1 when it failed
Test_initialize ==
    /\ At("test_bst", "initialize")
    /\ \E ok \in BOOLEAN : pc' = IF ok THEN "null_calls" ELSE "returned"
    /\ UNCHANGED <<program, loop_i, num_days, owned, test_tree, main_tree, vars>>

\* test_error_conditions, test 1: insert, search and in_order on NULL
Test_null_calls ==
    /\ At("test_bst", "null_calls")
    /\ pc' = "create_test_tree"
    /\ UNCHANGED <<program, loop_i, num_days, owned, test_tree, main_tree, vars>>

\* test_error_conditions, test 2: test_tree = create_tree()
Test_create_test_tree ==
    /\ At("test_bst", "create_test_tree")
    /\ \E ok \in BOOLEAN :
         IF ok
           THEN /\ owned' = OwnedCreate(owned)
                /\ test_tree' = Len(owned) + 1
           ELSE UNCHANGED <<owned, test_tree>>
    /\ pc' = "search_invalid"
    /\ UNCHANGED <<program, loop_i, num_days, main_tree, vars>>

\* test_error_conditions, test 2: search(test_tree, -1) when test_tree is
\* not NULL, and the return to main
Test_search_invalid ==
    /\ At("test_bst", "search_invalid")
    /\ pc' = "create_tree"
    /\ UNCHANGED <<program, loop_i, num_days, owned, test_tree, main_tree, vars>>

\* test_bst main: tree = create_tree(); return 1 when it failed
Test_create_tree ==
    /\ At("test_bst", "create_tree")
    /\ \E ok \in BOOLEAN :
         IF ok
           THEN /\ owned' = OwnedCreate(owned)
                /\ main_tree' = Len(owned) + 1
                /\ pc' = "build_test_tree"
           ELSE /\ pc' = "returned"
                /\ UNCHANGED <<owned, main_tree>>
    /\ loop_i' = 0
    /\ UNCHANGED <<program, num_days, test_tree, vars>>

\* build_test_tree: for (i = 0; i < 12; i++) insert(tree, readings[i])
Test_build_test_tree ==
    /\ At("test_bst", "build_test_tree")
    /\ IF loop_i < NumReadings
         THEN /\ \E ok \in BOOLEAN :
                   owned' = IF ok THEN OwnedInsert(owned, main_tree) ELSE owned
              /\ loop_i' = loop_i + 1
              /\ UNCHANGED pc
         ELSE /\ pc' = "search_test_cases"
              /\ loop_i' = 0
              /\ UNCHANGED owned
    /\ UNCHANGED <<program, num_days, test_tree, main_tree, vars>>

\* search_test_cases: one search per entry of test_times
Test_search_test_cases ==
    /\ At("test_bst", "search_test_cases")
    /\ IF loop_i < NumSearchCases
         THEN loop_i' = loop_i + 1 /\ UNCHANGED pc
         ELSE pc' = "in_order" /\ UNCHANGED loop_i
    /\ UNCHANGED <<program, num_days, owned, test_tree, main_tree, vars>>

\* test_bst main: in_order(tree); return 0
Test_in_order ==
    /\ At("test_bst", "in_order")
    /\ pc' = "returned"
    /\ UNCHANGED <<program, loop_i, num_days, owned, test_tree, main_tree, vars>>

\* either program is started; the API state of the single-tree model is idle
ProgramsInit ==
    /\ tree_state = "Uninitialized"
    /\ root = NULL
    /\ node_count = 0
    /\ heap = <<>>
    /\ call = Call("none", NULL, NoData, 0, FALSE)
    /\ ret = NULL
    /\ visited = <<>>
    /\ freed = <<>>
    /\ program \in {"hw5_app", "test_bst"}
    /\ pc = IF program = "hw5_app" THEN "create_tree" ELSE "initialize"
    /\ loop_i = 0
    /\ num_days = 0
    /\ owned = <<>>
    /\ test_tree = NULL
    /\ main_tree = NULL

ProgramsNext ==
    \/ App_create_tree
    \/ App_scanf
    \/ App_populateBST
    \/ App_populate_insert
    \/ App_prompt
    \/ App_in_order
    \/ App_delete_tree
    \/ Test_initialize
    \/ Test_null_calls
    \/ Test_create_test_tree
    \/ Test_search_invalid
    \/ Test_create_tree
    \/ Test_build_test_tree
    \/ Test_search_test_cases
    \/ Test_in_order

SpecPrograms == ProgramsInit /\ [][ProgramsNext]_<<vars, pvars>>

\* every tree the program got from create_tree has been passed to
\* delete_tree exactly once and none of its nodes is left allocated
AllTornDown ==
    \A t \in 1..Len(owned) : owned[t].deleted = 1 /\ owned[t].nodes = 0

\* C20: in hw5_app and in test_bst, every tree create_tree returned is torn
\* down with delete_tree exactly once before the program returns, and never
\* more than once, so no node is leaked.
C20_EveryTreeTornDown ==
    /\ \A t \in 1..Len(owned) : owned[t].deleted <= 1
    /\ pc = "returned" => AllTornDown

\* what holds of hw5_app alone: its tree is torn down on every path
C20_AppTreeTornDown ==
    /\ \A t \in 1..Len(owned) : owned[t].deleted <= 1
    /\ (program = "hw5_app" /\ pc = "returned") => AllTornDown

\* hw5_app returned after it had populated its tree
C20_AppWitness ==
    /\ program = "hw5_app"
    /\ pc = "returned"
    /\ Len(owned) = 1
    /\ num_days >= 1

\* ------------------------------------------------ duplicates and validation
\* the node that was allocated first among those that hold timestamp t
Earliest(h, t) == CHOOSE a \in Holding(h, t) : \A b \in Holding(h, t) : a <= b

\* an insert of a non-negative timestamp the tree holds walks the path of
\* search() to the first holder and puts the new node in its right subtree
C21_DuplicateInsertStep ==
    (/\ call'.name = "insert" /\ call'.tree = TreePtr /\ ~call'.malloc_failed
     /\ call'.timestamp >= 0
     /\ Holding(heap, call'.timestamp) # {}) =>
        LET first == Earliest(heap, call'.timestamp)
            path == SearchWalk(heap, root, call'.timestamp).path
        IN  /\ Len(path) <= Len(visited')
            /\ path = SubSeq(visited', 1, Len(path))
            /\ path[Len(path)] = first
            /\ ret' \in Subtree(heap', heap'[first].right)
            /\ ret' \notin Subtree(heap', heap'[first].left)

\* no call changes what search() returns for a non-negative timestamp the
\* tree holds
C21_AnswerKeptStep ==
    (Live /\ Live') =>
        \A t \in 0..MaxTime :
            Holding(heap, t) # {} =>
                SearchResult(heap', root', t).current =
                    SearchResult(heap, root, t).current

\* search() of a non-negative timestamp the tree holds returns its first
\* holder
C21_AnswerIsEarliest ==
    /\ Live => \A t \in 0..MaxTime :
                   Holding(heap, t) # {} =>
                       SearchResult(heap, root, t).current = Earliest(heap, t)
    /\ (Called("search") /\ call.timestamp >= 0
                         /\ Holding(heap, call.timestamp) # {}) =>
           ret = Earliest(heap, call.timestamp)

\* C21: among the stored readings with one non-negative timestamp T,
\* search(T) returns the one inserted earliest: every later insert of T
\* follows the search path to that node and lands in its right subtree, so
\* the node search(T) returns never changes once T has been inserted.
C21_SearchReturnsEarliest ==
    /\ []C21_AnswerIsEarliest
    /\ [][C21_DuplicateInsertStep]_vars
    /\ [][C21_AnswerKeptStep]_vars

\* search(T) returned the first of two holders of T, the second of which
\* hangs deeper in its right subtree, below a node with another timestamp
C21_Witness ==
    /\ Called("search")
    /\ call.timestamp >= 0
    /\ Cardinality(Holding(heap, call.timestamp)) = 2
    /\ ret = Earliest(heap, call.timestamp)
    /\ \E b \in Holding(heap, call.timestamp) \ {ret} :
           /\ heap[ret].right # b
           /\ b \in Subtree(heap, heap[ret].right)

\* the nodes 1..n in the order a stable sort by timestamp puts them: node n
\* goes behind every earlier node whose timestamp is not larger
RECURSIVE StableSort(_, _)
StableSort(h, n) ==
    IF n = 0
      THEN <<>>
      ELSE LET s == StableSort(h, n - 1)
               k == Cardinality({i \in 1..Len(s) :
                        h[s[i]].data.timestamp <= h[n].data.timestamp})
           IN  SubSeq(s, 1, k) \o <<n>> \o SubSeq(s, k + 1, Len(s))

\* equal timestamps come in the order of insertion, the others ascending
StablySorted(h, seq) ==
    \A i, j \in 1..Len(seq) :
        i < j => \/ h[seq[i]].data.timestamp < h[seq[j]].data.timestamp
                 \/ /\ h[seq[i]].data.timestamp = h[seq[j]].data.timestamp
                    /\ seq[i] < seq[j]

\* C22: the in-order traversal is a stable sort of the insertion sequence:
\* it visits every inserted reading once, in timestamp order, and readings
\* with equal timestamps in the order in which they were inserted, for
\* every insertion sequence.
C22_StableTraversal ==
    /\ Live => /\ InOrderNow = StableSort(heap, Len(heap))
               /\ StablySorted(heap, InOrderNow)
    /\ Called("in_order") => /\ visited = StableSort(heap, Len(heap))
                             /\ StablySorted(heap, visited)

\* in_order() walked three nodes that were not inserted in ascending order,
\* two of them with one timestamp and different measurements
C22_Witness ==
    /\ Called("in_order")
    /\ Len(visited) = 3
    /\ visited # <<1, 2, 3>>
    /\ \E i, j \in 1..Len(visited) :
           /\ i < j
           /\ visited[i] < visited[j]
           /\ heap[visited[i]].data.timestamp = heap[visited[j]].data.timestamp
           /\ heap[visited[i]].data # heap[visited[j]].data

\* where node a stands in a sequence of nodes
Position(seq, a) == CHOOSE i \in 1..Len(seq) : seq[i] = a

\* an insert of a negative timestamp whose malloc() succeeds returns a new
\* node that holds the reading and raises the count by one
C23_NegativeInsertStep ==
    (/\ call'.name = "insert" /\ call'.tree = TreePtr /\ ~call'.malloc_failed
     /\ call'.timestamp < 0) =>
        /\ ret' # NULL
        /\ ret' = Len(heap) + 1
        /\ Len(heap') = Len(heap) + 1
        /\ heap'[ret'].data = call'.info
        /\ node_count' = node_count + 1
        /\ \A a \in 1..Len(heap) : heap'[a].data = heap[a].data

\* after an insert of a negative timestamp the ordering invariant holds and
\* the traversal has the new reading before every non-negative one
C23_NegativeInsertState ==
    (InsertSucceeded /\ call.timestamp < 0) =>
        /\ C2_OrderingInvariant
        /\ ret \in Range(InOrderNow)
        /\ NonDecreasing(TimestampsOf(heap, InOrderNow))
        /\ \A i \in 1..Len(InOrderNow) :
               heap[InOrderNow[i]].data.timestamp >= 0 =>
                   Position(InOrderNow, ret) < i

\* search() of a negative timestamp the tree holds finds nothing
C23_NegativeSearchState ==
    /\ Live => \A t \in Times :
                   (t < 0 /\ Holding(heap, t) # {}) =>
                       SearchResult(heap, root, t).current = NULL
    /\ (Called("search") /\ call.timestamp < 0
                         /\ Holding(heap, call.timestamp) # {}) => ret = NULL

\* C23: insert does not validate the timestamp: a reading with a negative
\* timestamp is inserted like any other (a node is returned, node_count
\* rises by one, the ordering invariant holds, the reading is in the
\* traversal before all non-negative ones), while search with that same
\* timestamp reports "not found".
C23_NegativeTimestamp ==
    /\ [][C23_NegativeInsertStep]_vars
    /\ []C23_NegativeInsertState
    /\ []C23_NegativeSearchState

\* a negative timestamp was inserted as the third node, below a root with a
\* non-negative timestamp and behind an earlier negative reading
C23_Witness ==
    /\ InsertSucceeded
    /\ call.timestamp < 0
    /\ Len(heap) = 3
    /\ ret = 3
    /\ heap[root].data.timestamp >= 0
    /\ Position(InOrderNow, ret) = 2

====
